---- MODULE Spec2Model ----
(***************************************************************************)
(* Ticket lifecycle, ticket-number allocation, access scoping and user    *)
(* management of the IT ticketing system (server/routes/tickets.js and     *)
(* server/routes/users.js over the MySQL schema created by                 *)
(* server/config/database.js).                                             *)
(*                                                                         *)
(* Every HTTP request is served by one of NumProcs request slots.  A       *)
(* handler is cut at its awaits: each SQL statement is one atomic step,    *)
(* and the steps of different requests interleave.  Statements issued      *)
(* through pool.execute autocommit; create-ticket runs its statements in   *)
(* one transaction whose rows stay private until COMMIT.                   *)
(*                                                                         *)
(* Strings that the code parses, formats or compares (ticket numbers)      *)
(* are sequences of character codes, so formatting, parsing and the        *)
(* ORDER BY comparison are computed, not assumed.                          *)
(*                                                                         *)
(* Row locks: SELECT ... FOR UPDATE locks the row it returns until the     *)
(* transaction ends; a locking read, UPDATE, DELETE or child-row INSERT    *)
(* that needs a row locked by another transaction waits.  A read that      *)
(* returns no row locks no row.  An INSERT whose unique key equals that of *)
(* another transaction's uncommitted row waits for that transaction; one   *)
(* whose key equals a committed row fails with ER_DUP_ENTRY.  Any awaited  *)
(* statement may also reject for reasons outside the program (connection   *)
(* lost, lock wait timeout, deadlock victim).                              *)
(***************************************************************************)
EXTENDS Integers, Sequences, FiniteSets, TLC

(* ------------------------------ bounds --------------------------------- *)
NumProcs == 2
MaxTicketId == 3
MaxUpdates == 2
MaxLeaks == 1

(* ----------------------- strings as code sequences --------------------- *)
Zero == 48
Nine == 57
Dot == 46
LowerE == 101
Prefix == <<84, 75, 84>>
PadWidth == 4
CurrentYear == 2025
NaN == -1
NULL == "NULL"
\* a NULL reference to users(id)
NoUser == 0
ConnectionLimit == 10

RECURSIVE NumToString(_)
NumToString(n) == IF n < 10 THEN <<Zero + n>>
                  ELSE Append(NumToString(n \div 10), Zero + (n % 10))

RECURSIVE PadStart(_, _, _)
PadStart(s, width, c) == IF Len(s) >= width THEN s
                         ELSE PadStart(<<c>> \o s, width, c)

StartsWithAt(s, pat, i) ==
    /\ i + Len(pat) - 1 <= Len(s)
    /\ \A k \in 1..Len(pat) : s[i + k - 1] = pat[k]

Replace(s, pat) ==
    LET hits == {i \in 1..Len(s) : StartsWithAt(s, pat, i)}
    IN  IF hits = {} THEN s
        ELSE LET i == CHOOSE h \in hits : \A g \in hits : h <= g
             IN  SubSeq(s, 1, i - 1) \o SubSeq(s, i + Len(pat), Len(s))

IsDigit(c) == c >= Zero /\ c <= Nine

RECURSIVE DigitsValue(_, _)
DigitsValue(s, acc) ==
    IF s = <<>> \/ ~IsDigit(Head(s)) THEN acc
    ELSE DigitsValue(Tail(s), acc * 10 + (Head(s) - Zero))

ParseInt(s) == IF s = <<>> \/ ~IsDigit(Head(s)) THEN NaN
               ELSE DigitsValue(s, 0)

RECURSIVE StrLess(_, _)
StrLess(a, b) ==
    IF a = <<>> THEN b # <<>>
    ELSE IF b = <<>> THEN FALSE
    ELSE IF Head(a) # Head(b) THEN Head(a) < Head(b)
    ELSE StrLess(Tail(a), Tail(b))

\* the longest prefix of decimal digits
RECURSIVE TakeDigits(_)
TakeDigits(s) == IF s = <<>> \/ ~IsDigit(Head(s)) THEN <<>>
                 ELSE <<Head(s)>> \o TakeDigits(Tail(s))

Drop(s, n) == SubSeq(s, n + 1, Len(s))

RECURSIVE Pow10(_)
Pow10(k) == IF k = 0 THEN 1 ELSE 10 * Pow10(k - 1)

\* The number MySQL reads from a string compared with a numeric column: the
\* leading digits, an optional fraction and an optional exponent; what follows
\* is ignored.  The value is mant * 10^(exp - scale).
SqlNumber(s) ==
    LET ip == TakeDigits(s)
        r1 == Drop(s, Len(ip))
        fp == IF r1 # <<>> /\ Head(r1) = Dot THEN TakeDigits(Tail(r1)) ELSE <<>>
        r2 == IF r1 # <<>> /\ Head(r1) = Dot THEN Drop(r1, 1 + Len(fp)) ELSE r1
        xp == IF r2 # <<>> /\ Head(r2) = LowerE THEN TakeDigits(Tail(r2)) ELSE <<>>
    IN  [mant |-> DigitsValue(ip \o fp, 0), scale |-> Len(fp), exp |-> DigitsValue(xp, 0)]

\* int_column = 'string': both sides are compared as numbers
SqlEqualsInt(s, n) ==
    LET d == SqlNumber(s)
    IN  IF d.exp >= d.scale THEN d.mant * Pow10(d.exp - d.scale) = n
        ELSE d.mant = n * Pow10(d.scale - d.exp)

\* n written in scientific notation, 0.<n>e1
Scientific(n) == <<Zero, Dot>> \o NumToString(n) \o <<LowerE, Zero + 1>>

FormatTicketNumber(year, nextCount) ==
    Prefix \o NumToString(year) \o PadStart(NumToString(nextCount), PadWidth, Zero)

(* ------------------------------ the store ------------------------------ *)
Procs == 1..NumProcs
TicketIds == 1..MaxTicketId

\* mutation of ValidStatuses: the isIn validator lets the value Reopened through
ValidStatuses_open == {"Pending", "In Progress", "On Hold", "Done", "Closed", "Reopened"}

ValidStatuses == {"Pending", "In Progress", "On Hold", "Done", "Closed"}
\* request inputs: two valid target statuses and one invalid; department absent or given
StatusInputs == {"In Progress", "Closed", "Reopened"}
DeptInputs == {NULL, "HR"}
\* tickets created in the current year before the first modelled request:
\* none, or enough for the next sequences to cross the 4-digit padding
SeedCounts == {0, 9998}

VARIABLES
    users,           \* users table: id -> [role, department]
    tickets,         \* committed rows of tickets: id -> row
    ticket_updates,  \* committed rows of ticket_updates, per ticket_id, in insertion order
    nextTicketId,    \* AUTO_INCREMENT of tickets.id
    pc,              \* per request slot: the await the handler is suspended at
    req,             \* per request slot: the request being served
    frame,           \* per request slot: the handler's local variables
    tx,              \* per request slot: the open transaction of its connection
    res,             \* per request slot: the response sent
    lastIssued,      \* ticket_number of the most recent successful create-ticket response
    uploads,         \* files present in the server's uploads directory
    checkedOut       \* connections obtained from pool.getConnection() and not yet released

vars == <<users, tickets, ticket_updates, nextTicketId, pc, req, frame, tx, res, lastIssued,
          uploads, checkedOut>>

\* req.query of list-tickets with nothing supplied: page and limit default to 1 and 10
NoQuery == [status |-> NULL, department |-> NULL, search |-> <<>>, created_by |-> <<>>,
            page |-> 1, limit |-> 10]
NoReq == [op |-> "none", user |-> 0, id |-> 0, status |-> NULL, notes |-> NULL,
          department |-> NULL, selectFails |-> FALSE, param |-> <<>>, role |-> NULL,
          query |-> NoQuery]
NoFrame == [department |-> NULL, nextCount |-> 0, ticket_number |-> <<>>,
            insertId |-> 0, oldStatus |-> NULL, error |-> NULL,
            total |-> 0, rows |-> <<>>, updates |-> <<>>]
NoTx == [locked |-> {}, tickets |-> <<>>, updates |-> <<>>]
NoRes == [code |-> 0, message |-> ""]

TicketRow(num, dept, creator) ==
    [ticket_number |-> num, department |-> dept, status |-> "Pending",
     created_by |-> creator, created_year |-> CurrentYear,
     photo_url |-> NULL, assigned_to |-> NoUser]

UpdateRow(user, type, old, new, notes) ==
    [user_id |-> user, update_type |-> type, old_value |-> old,
     new_value |-> new, notes |-> notes]

\* mutation of CreationUpdate: the row is written with old_value filled in
CreationUpdate_oldFilled(user) == UpdateRow(user, "status_change", "Pending", "Pending", "Ticket created")

CreationUpdate(user) == UpdateRow(user, "status_change", NULL, "Pending", "Ticket created")

InitUsers == (1 :> [role |-> "admin", department |-> "IT Department"])
          @@ (2 :> [role |-> "user", department |-> "Sales"])

\* the same with an account of the third role
StaffUsers == InitUsers @@ (3 :> [role |-> "it", department |-> "IT Department"])

IdleSlots ==
    /\ pc = [p \in Procs |-> "idle"]
    /\ req = [p \in Procs |-> NoReq]
    /\ frame = [p \in Procs |-> NoFrame]
    /\ tx = [p \in Procs |-> NoTx]
    /\ res = [p \in Procs |-> NoRes]
    /\ checkedOut = 0

\* the tables after initDatabase and `seed` earlier creations in the current year
\* of which only the last ticket has not been deleted again
SeededTables(seed, creator) ==
    IF seed = 0
    THEN /\ tickets = <<>>
         /\ ticket_updates = [t \in TicketIds |-> <<>>]
         /\ nextTicketId = 1
         /\ lastIssued = <<>>
    ELSE /\ tickets = (1 :> TicketRow(FormatTicketNumber(CurrentYear, seed),
                                      users[creator].department, creator))
         /\ ticket_updates = [t \in TicketIds |-> IF t = 1 THEN <<CreationUpdate(creator)>> ELSE <<>>]
         /\ nextTicketId = 2
         /\ lastIssued = FormatTicketNumber(CurrentYear, seed)

Init ==
    /\ users = InitUsers
    /\ \E seed \in SeedCounts : SeededTables(seed, 2)
    /\ uploads = {}
    /\ IdleSlots

\* one ticket exists, filed by either user
InitLife ==
    /\ users = InitUsers
    /\ \E creator \in DOMAIN InitUsers : SeededTables(1, creator)
    /\ uploads = {}
    /\ IdleSlots

\* three accounts and one ticket filed by the user, still Pending or already
\* closed by the admin
InitStaff ==
    /\ users = StaffUsers
    /\ \E closed \in BOOLEAN :
         /\ tickets = (1 :> [TicketRow(FormatTicketNumber(CurrentYear, 1), "Sales", 2)
                                EXCEPT !.status = IF closed THEN "Closed" ELSE "Pending"])
         /\ ticket_updates = [t \in TicketIds |->
                IF t # 1 THEN <<>>
                ELSE IF closed
                THEN <<CreationUpdate(2),
                       UpdateRow(1, "status_change", "Pending", "Closed", "starting work")>>
                ELSE <<CreationUpdate(2)>>]
    /\ nextTicketId = 2
    /\ lastIssued = FormatTicketNumber(CurrentYear, 1)
    /\ uploads = {}
    /\ IdleSlots

\* three accounts, a ticket filed by the user and one filed by the admin for
\* another department
InitRead ==
    /\ users = StaffUsers
    /\ tickets = (1 :> TicketRow(FormatTicketNumber(CurrentYear, 1), "Sales", 2))
              @@ (2 :> TicketRow(FormatTicketNumber(CurrentYear, 2), "HR", 1))
    /\ ticket_updates = [t \in TicketIds |->
                            IF t = 1 THEN <<CreationUpdate(2)>>
                            ELSE IF t = 2 THEN <<CreationUpdate(1)>> ELSE <<>>]
    /\ nextTicketId = 3
    /\ lastIssued = FormatTicketNumber(CurrentYear, 2)
    /\ uploads = {}
    /\ IdleSlots

\* three accounts and no ticket yet
InitDept ==
    /\ users = StaffUsers
    /\ SeededTables(0, 2)
    /\ uploads = {}
    /\ IdleSlots

\* the ticket of the sample data: filed by the user with a photo, which is
\* in the uploads directory
SamplePhoto == "/uploads/ticket-1752668447091-852235345.PNG"

InitPhoto ==
    /\ users = InitUsers
    /\ tickets = (1 :> [TicketRow(FormatTicketNumber(CurrentYear, 1), "Sales", 2)
                           EXCEPT !.photo_url = SamplePhoto])
    /\ ticket_updates = [t \in TicketIds |-> IF t = 1 THEN <<CreationUpdate(2)>> ELSE <<>>]
    /\ nextTicketId = 2
    /\ lastIssued = FormatTicketNumber(CurrentYear, 1)
    /\ uploads = {SamplePhoto}
    /\ IdleSlots

\* three accounts and three tickets whose assigned_to was filled in by a data
\* load (the schema declares the column and the dashboard reads it; no handler
\* writes it): ticket 1 filed by the user and assigned to it, ticket 2 filed by
\* the admin and assigned to the user, ticket 3 filed by it and assigned to it
InitAssigned ==
    /\ users = StaffUsers
    /\ tickets = (1 :> [TicketRow(FormatTicketNumber(CurrentYear, 1), "Sales", 2)
                           EXCEPT !.assigned_to = 3])
              @@ (2 :> [TicketRow(FormatTicketNumber(CurrentYear, 2), "HR", 1)
                           EXCEPT !.assigned_to = 2])
              @@ (3 :> [TicketRow(FormatTicketNumber(CurrentYear, 3), "IT Department", 3)
                           EXCEPT !.assigned_to = 3])
    /\ ticket_updates = [t \in TicketIds |->
                            IF t = 1 THEN <<CreationUpdate(2)>>
                            ELSE IF t = 2 THEN <<CreationUpdate(1)>>
                            ELSE IF t = 3 THEN <<CreationUpdate(3)>> ELSE <<>>]
    /\ nextTicketId = 4
    /\ lastIssued = FormatTicketNumber(CurrentYear, 3)
    /\ uploads = {}
    /\ IdleSlots

\* ticket numbers as rows loaded from an older installation may carry them:
\* after TKT<year> letters, digits, digits followed by letters, or nothing;
\* a number of another format; an empty number
LegacyNumbers ==
    {Prefix \o NumToString(CurrentYear) \o suffix :
        suffix \in {<<65, 66, 67, 68>>, <<48, 48, 48, 55>>, <<49, 50, 65, 66>>, <<>>}}
    \cup {<<84, 75, 84, 45, 55>>, <<>>}

\* no ticket, or one ticket of the current year with such a number
InitSuffix ==
    /\ users = InitUsers
    /\ \/ SeededTables(0, 2)
       \/ \E num \in LegacyNumbers :
            /\ tickets = (1 :> TicketRow(num, "Sales", 2))
            /\ ticket_updates = [t \in TicketIds |-> IF t = 1 THEN <<CreationUpdate(2)>> ELSE <<>>]
            /\ nextTicketId = 2
            /\ lastIssued = num
    /\ uploads = {}
    /\ IdleSlots

\* the default admin of initDatabase and a second admin account created by it
\* through POST /api/users; no ticket yet
InitAdmins ==
    /\ users = (1 :> [role |-> "admin", department |-> "IT Department"])
            @@ (2 :> [role |-> "admin", department |-> "HR"])
    /\ SeededTables(0, 1)
    /\ uploads = {}
    /\ IdleSlots

(* ---------------------------- SQL primitives --------------------------- *)
LockedByOther(p, t) == \E q \in Procs \ {p} : t \in tx[q].locked

IsAdmin(role) == role = "admin"

Respond(p, code, message) ==
    /\ pc' = [pc EXCEPT ![p] = "done"]
    /\ res' = [res EXCEPT ![p] = [code |-> code, message |-> message]]

\* SELECT ticket_number FROM tickets WHERE YEAR(created_at) = ?
\* ORDER BY ticket_number DESC LIMIT 1
HighestRow(year) ==
    LET rows == {t \in DOMAIN tickets : tickets[t].created_year = year}
    IN  {t \in rows : \A o \in rows \ {t} :
            StrLess(tickets[o].ticket_number, tickets[t].ticket_number)}

\* mutation of NextCount: the result of parseInt is used without the isNaN test
NextCount_unchecked(rows, year) ==
    IF rows # {} /\ tickets[CHOOSE t \in rows : TRUE].ticket_number # <<>>
    THEN LET last == tickets[CHOOSE t \in rows : TRUE].ticket_number
             lastNumStr == Replace(last, Prefix \o NumToString(year))
         IN  ParseInt(lastNumStr) + 1
    ELSE 1

NextCount(rows, year) ==
    IF rows # {} /\ tickets[CHOOSE t \in rows : TRUE].ticket_number # <<>>
    THEN LET last == tickets[CHOOSE t \in rows : TRUE].ticket_number
             lastNumStr == Replace(last, Prefix \o NumToString(year))
             parsed == ParseInt(lastNumStr)
         IN  IF parsed # NaN THEN parsed + 1 ELSE 1
    ELSE 1

\* mutation of DuplicateKey: the table has no unique index
DuplicateKey_off(num) == FALSE

\* ticket_number UNIQUE: the insert is refused when a committed row has the number
DuplicateKey(num) == \E t \in DOMAIN tickets : tickets[t].ticket_number = num

PendingKey(p, num) ==
    \E q \in Procs \ {p} : \E i \in 1..Len(tx[q].tickets) :
        tx[q].tickets[i].row.ticket_number = num

(* ----------------------- POST /api/tickets ----------------------------- *)
\* pool.getConnection() hands out a connection while fewer than connectionLimit
\* are checked out (waitForConnections: the request waits otherwise)
GetConnection ==
    /\ checkedOut < ConnectionLimit
    /\ checkedOut' = checkedOut + 1

\* conn.release()
ReleaseConnection == checkedOut' = checkedOut - 1

\* mutation of TicketDepartment: the department of the request body is used
\* for every caller
TicketDepartment_fromBody(role, own, supplied) == supplied

\* admin: req.body.department; anyone else: req.user.department
TicketDepartment(role, own, supplied) == IF IsAdmin(role) THEN supplied ELSE own

CreateTicket(p) ==
    /\ pc[p] = "idle"
    /\ \E u \in DOMAIN users, valid \in BOOLEAN, dept \in DeptInputs :
         /\ req' = [req EXCEPT ![p] = [NoReq EXCEPT !.op = "create", !.user = u,
                                                    !.department = dept]]
         /\ IF ~valid
            THEN /\ Respond(p, 400, "validation")
                 /\ UNCHANGED frame
            ELSE IF IsAdmin(users[u].role) /\ dept = NULL
            THEN /\ Respond(p, 400, "Department is required for admin")
                 /\ UNCHANGED frame
            ELSE /\ frame' = [frame EXCEPT ![p] = [NoFrame EXCEPT !.department =
                        TicketDepartment(users[u].role, users[u].department, dept)]]
                 /\ pc' = [pc EXCEPT ![p] = "c_lock"]
                 /\ UNCHANGED res
         /\ IF valid /\ ~(IsAdmin(users[u].role) /\ dept = NULL)
            THEN GetConnection
            ELSE UNCHANGED checkedOut
    /\ UNCHANGED <<users, tickets, ticket_updates, nextTicketId, tx, lastIssued, uploads>>

CreateLockingRead(p) ==
    /\ pc[p] = "c_lock"
    /\ LET rows == HighestRow(CurrentYear)
           nextCount == NextCount(rows, CurrentYear)
       IN  /\ \A t \in rows : ~LockedByOther(p, t)
           /\ tx' = [tx EXCEPT ![p].locked = rows]
           /\ frame' = [frame EXCEPT ![p].nextCount = nextCount,
                          ![p].ticket_number = FormatTicketNumber(CurrentYear, nextCount)]
    /\ pc' = [pc EXCEPT ![p] = "c_insert"]
    /\ UNCHANGED <<users, tickets, ticket_updates, nextTicketId, req, res, lastIssued, uploads, checkedOut>>

\* a refused insert leaves the AUTO_INCREMENT counter alone here; the ids it
\* would burn are never observed
CreateInsertTicket(p) ==
    /\ pc[p] = "c_insert"
    /\ ~PendingKey(p, frame[p].ticket_number)
    /\ IF DuplicateKey(frame[p].ticket_number)
       THEN /\ frame' = [frame EXCEPT ![p].error = "ER_DUP_ENTRY"]
            /\ pc' = [pc EXCEPT ![p] = "c_catch"]
            /\ UNCHANGED <<tx, nextTicketId>>
       ELSE /\ nextTicketId <= MaxTicketId
            /\ tx' = [tx EXCEPT ![p].tickets =
                        <<[id |-> nextTicketId,
                           row |-> TicketRow(frame[p].ticket_number, frame[p].department,
                                             req[p].user)]>>]
            /\ frame' = [frame EXCEPT ![p].insertId = nextTicketId]
            /\ nextTicketId' = nextTicketId + 1
            /\ pc' = [pc EXCEPT ![p] = "c_audit"]
    /\ UNCHANGED <<users, tickets, ticket_updates, req, res, lastIssued, uploads, checkedOut>>

CreateInsertUpdate(p) ==
    /\ pc[p] = "c_audit"
    /\ IF req[p].user \in DOMAIN users
       THEN /\ tx' = [tx EXCEPT ![p].updates =
                        <<[ticket_id |-> frame[p].insertId,
                           row |-> CreationUpdate(req[p].user)]>>]
            /\ pc' = [pc EXCEPT ![p] = "c_commit"]
            /\ UNCHANGED frame
       ELSE /\ frame' = [frame EXCEPT ![p].error = "ER_NO_REFERENCED_ROW"]
            /\ pc' = [pc EXCEPT ![p] = "c_catch"]
            /\ UNCHANGED tx
    /\ UNCHANGED <<users, tickets, ticket_updates, nextTicketId, req, res, lastIssued, uploads, checkedOut>>

CommitRows(p) ==
    /\ tickets' = tickets @@ [t \in {tx[p].tickets[i].id : i \in 1..Len(tx[p].tickets)} |->
                     (CHOOSE r \in {tx[p].tickets[i] : i \in 1..Len(tx[p].tickets)} : r.id = t).row]
    /\ ticket_updates' = [t \in TicketIds |->
         ticket_updates[t] \o
         [i \in 1..Len(SelectSeq(tx[p].updates, LAMBDA r : r.ticket_id = t)) |->
            SelectSeq(tx[p].updates, LAMBDA r : r.ticket_id = t)[i].row]]

CreateCommit(p) ==
    /\ pc[p] = "c_commit"
    /\ CommitRows(p)
    /\ tx' = [tx EXCEPT ![p] = NoTx]
    /\ lastIssued' = frame[p].ticket_number
    /\ ReleaseConnection
    /\ Respond(p, 201, "Ticket created successfully")
    /\ UNCHANGED <<users, nextTicketId, req, frame, uploads>>

\* an awaited statement of the transaction rejects (lost connection, lock
\* wait timeout, deadlock victim, ...): control passes to the catch block
CreateStatementFails(p) ==
    /\ pc[p] \in {"c_lock", "c_insert", "c_audit", "c_commit"}
    /\ frame' = [frame EXCEPT ![p].error = "ER_OTHER"]
    /\ pc' = [pc EXCEPT ![p] = "c_catch"]
    /\ UNCHANGED <<users, tickets, ticket_updates, nextTicketId, req, tx, res, lastIssued, uploads, checkedOut>>

\* mutation of RollbackRows: the ticket insert had autocommitted, so the
\* rollback leaves the ticket row behind
RollbackRows_keepsTicket(p) ==
    /\ tickets' = tickets @@ [t \in {tx[p].tickets[i].id : i \in 1..Len(tx[p].tickets)} |->
                     (CHOOSE r \in {tx[p].tickets[i] : i \in 1..Len(tx[p].tickets)} : r.id = t).row]
    /\ UNCHANGED ticket_updates

\* conn.rollback(): the rows written by the transaction are discarded
RollbackRows(p) == UNCHANGED <<tickets, ticket_updates>>

\* connections checked out that no handler in flight will release
Leaked == checkedOut - Cardinality({q \in Procs : pc[q] \in {"c_lock", "c_insert", "c_audit",
                                                             "c_commit", "c_catch"}})

CatchResponse(p) ==
    IF frame[p].error = "ER_DUP_ENTRY"
    THEN Respond(p, 409, "Duplicate ticket number generated; please retry")
    ELSE Respond(p, 500, "Server error")

CreateCatch(p) ==
    /\ pc[p] = "c_catch"
    /\ RollbackRows(p)
    /\ tx' = [tx EXCEPT ![p] = NoTx]
    /\ ReleaseConnection
    /\ CatchResponse(p)
    /\ UNCHANGED <<users, nextTicketId, req, frame, lastIssued, uploads>>

\* conn.rollback() itself rejects: the server aborts the transaction, the
\* inner catch swallows the error and conn.release() is skipped.  When the
\* rejection came with the connection closing, the pool drops the connection
\* and its place is free again; when the connection is still open it stays
\* checked out.
CreateRollbackFails(p) ==
    /\ pc[p] = "c_catch"
    /\ RollbackRows(p)
    /\ tx' = [tx EXCEPT ![p] = NoTx]
    /\ CatchResponse(p)
    /\ \/ Leaked < MaxLeaks /\ UNCHANGED checkedOut
       \/ checkedOut' = checkedOut - 1
    /\ UNCHANGED <<users, nextTicketId, req, frame, lastIssued, uploads>>

\* the response has been delivered; the slot serves the next request
Reply(p) ==
    /\ pc[p] = "done"
    /\ pc' = [pc EXCEPT ![p] = "idle"]
    /\ req' = [req EXCEPT ![p] = NoReq]
    /\ frame' = [frame EXCEPT ![p] = NoFrame]
    /\ res' = [res EXCEPT ![p] = NoRes]
    /\ UNCHANGED <<users, tickets, ticket_updates, nextTicketId, tx, lastIssued, uploads, checkedOut>>

\* ids a request may name: every id ever issued and one never issued
RequestIds == 1..(IF nextTicketId < MaxTicketId THEN nextTicketId ELSE MaxTicketId)

(* --------------------- PUT /api/tickets/:id/status --------------------- *)
RequireAdmin(role) == role \in {"admin", "it"}

\* rows appended after the creation rows, plus those requests in flight may yet append
RECURSIVE SumLen(_)
SumLen(S) == IF S = {} THEN 0
             ELSE LET t == CHOOSE x \in S : TRUE
                  IN  (IF Len(ticket_updates[t]) > 1 THEN Len(ticket_updates[t]) - 1 ELSE 0)
                      + SumLen(S \ {t})

InFlightWriters ==
    Cardinality({q \in Procs : pc[q] \in {"s_update", "s_insert", "n_insert"}})

HistoryRoom == SumLen(TicketIds) + InFlightWriters < MaxUpdates

\* mutation of IsClosed: the handlers do not check for Closed
IsClosed_never(row) == FALSE

IsClosed(row) == row.status = "Closed"

\* mutation of SelectTicket: the created_by condition is never added
SelectTicket_unscoped(id, u, scoped) == {t \in DOMAIN tickets : t = id}

\* WHERE id = ? [AND created_by = ?]
SelectTicket(id, u, scoped) ==
    {t \in DOMAIN tickets : t = id /\ (scoped => tickets[t].created_by = u)}

ChangeStatus(p) ==
    /\ pc[p] = "idle"
    /\ \E u \in DOMAIN users, id \in RequestIds, status \in StatusInputs, fails \in BOOLEAN :
         \* the SELECT can only fail when the request gets as far as the SELECT
         /\ fails => RequireAdmin(users[u].role) /\ status \in ValidStatuses
         /\ req' = [req EXCEPT ![p] = [NoReq EXCEPT !.op = "status", !.user = u, !.id = id,
                                                    !.status = status, !.notes = "starting work",
                                                    !.selectFails = fails]]
         /\ IF ~RequireAdmin(users[u].role)
            THEN /\ Respond(p, 403, "Access denied")
                 /\ UNCHANGED frame
            ELSE IF status \notin ValidStatuses
            THEN /\ Respond(p, 400, "Invalid status")
                 /\ UNCHANGED frame
            ELSE IF fails
            THEN /\ Respond(p, 500, "Server error")
                 /\ UNCHANGED frame
            ELSE IF SelectTicket(id, u, FALSE) = {}
            THEN /\ Respond(p, 404, "Ticket not found")
                 /\ UNCHANGED frame
            ELSE IF IsClosed(tickets[id])
            THEN /\ Respond(p, 400, "Cannot modify a closed ticket")
                 /\ UNCHANGED frame
            ELSE /\ HistoryRoom
                 /\ frame' = [frame EXCEPT ![p] = [NoFrame EXCEPT !.oldStatus = tickets[id].status]]
                 /\ pc' = [pc EXCEPT ![p] = "s_update"]
                 /\ UNCHANGED res
    /\ UNCHANGED <<users, tickets, ticket_updates, nextTicketId, tx, lastIssued, uploads, checkedOut>>

\* UPDATE tickets SET status = ? WHERE id = ?
StatusUpdate(p) ==
    /\ pc[p] = "s_update"
    /\ ~LockedByOther(p, req[p].id)
    /\ tickets' = [t \in DOMAIN tickets |->
                     IF t = req[p].id THEN [tickets[t] EXCEPT !.status = req[p].status]
                     ELSE tickets[t]]
    /\ pc' = [pc EXCEPT ![p] = "s_insert"]
    /\ UNCHANGED <<users, ticket_updates, nextTicketId, req, frame, tx, res, lastIssued, uploads, checkedOut>>

\* FOREIGN KEY (ticket_id) REFERENCES tickets(id), (user_id) REFERENCES users(id)
ForeignKeysHold(t, u) == t \in DOMAIN tickets /\ u \in DOMAIN users

InsertUpdate(t, row) ==
    ticket_updates' = [ticket_updates EXCEPT ![t] = Append(@, row)]

StatusInsert(p) ==
    /\ pc[p] = "s_insert"
    /\ ~LockedByOther(p, req[p].id)
    /\ IF ForeignKeysHold(req[p].id, req[p].user)
       THEN /\ InsertUpdate(req[p].id, UpdateRow(req[p].user, "status_change",
                                frame[p].oldStatus, req[p].status, req[p].notes))
            /\ Respond(p, 200, "Ticket status updated successfully")
       ELSE /\ Respond(p, 500, "Server error")
            /\ UNCHANGED ticket_updates
    /\ UNCHANGED <<users, tickets, nextTicketId, req, frame, tx, lastIssued, uploads, checkedOut>>

\* an awaited pool.execute of a handler without a transaction rejects: the
\* catch block answers 500 and nothing already written is undone
StatementFails(p) ==
    /\ pc[p] \in {"s_update", "s_insert", "n_insert", "d_delete", "u_delete", "u_update",
                  "l_rows", "v_updates", "h_updates"}
    /\ Respond(p, 500, "Server error")
    /\ UNCHANGED <<users, tickets, ticket_updates, nextTicketId, req, frame, tx, lastIssued, uploads, checkedOut>>

(* --------------------- POST /api/tickets/:id/notes ---------------------- *)
AddNote(p) ==
    /\ pc[p] = "idle"
    /\ \E u \in DOMAIN users, id \in RequestIds, notes \in {"", "note"}, fails \in BOOLEAN :
         /\ fails => notes # ""
         /\ req' = [req EXCEPT ![p] = [NoReq EXCEPT !.op = "note", !.user = u, !.id = id,
                                                    !.notes = notes, !.selectFails = fails]]
         /\ IF notes = ""
            THEN Respond(p, 400, "Notes are required")
            ELSE IF fails
            THEN Respond(p, 500, "Server error")
            ELSE IF SelectTicket(id, u, users[u].role = "user") = {}
            THEN Respond(p, 404, "Ticket not found")
            ELSE IF IsClosed(tickets[id])
            THEN Respond(p, 400, "Cannot modify a closed ticket")
            ELSE /\ HistoryRoom
                 /\ pc' = [pc EXCEPT ![p] = "n_insert"]
                 /\ UNCHANGED res
    /\ UNCHANGED <<users, tickets, ticket_updates, nextTicketId, frame, tx, lastIssued, uploads, checkedOut>>

\* mutation of NoteRow: the note is recorded as a status_change row that
\* carries the status Pending
NoteRow_asStatusChange(user, notes) == UpdateRow(user, "status_change", NULL, "Pending", notes)

\* VALUES (?, ?, ?, ?) for (ticket_id, user_id, update_type, notes): old_value
\* and new_value take their default, NULL
NoteRow(user, notes) == UpdateRow(user, "note", NULL, NULL, notes)

NoteInsert(p) ==
    /\ pc[p] = "n_insert"
    /\ ~LockedByOther(p, req[p].id)
    /\ IF ForeignKeysHold(req[p].id, req[p].user)
       THEN /\ InsertUpdate(req[p].id, NoteRow(req[p].user, req[p].notes))
            /\ Respond(p, 200, "Note added successfully")
       ELSE /\ Respond(p, 500, "Server error")
            /\ UNCHANGED ticket_updates
    /\ UNCHANGED <<users, tickets, nextTicketId, req, frame, tx, lastIssued, uploads, checkedOut>>

(* ----------------------- DELETE /api/tickets/:id ------------------------ *)
\* fs.unlinkSync(photoPath)
Unlink(file) == uploads \ {file}

\* the handler gets as far as the photo: the SELECT succeeds and returns the
\* ticket, which is not Closed
ReachesPhoto(id, u, fails) ==
    /\ ~fails
    /\ SelectTicket(id, u, users[u].role = "user") # {}
    /\ ~IsClosed(tickets[id])

\* ticket.photo_url is set and fs.existsSync(photoPath)
PhotoOnDisk(id) == tickets[id].photo_url # NULL /\ tickets[id].photo_url \in uploads

DeleteTicket(p) ==
    /\ pc[p] = "idle"
    /\ \E u \in DOMAIN users, id \in RequestIds, fails \in BOOLEAN, unlinkFails \in BOOLEAN :
         \* fs.unlinkSync can only throw when it is called
         /\ unlinkFails => ReachesPhoto(id, u, fails) /\ PhotoOnDisk(id)
         /\ req' = [req EXCEPT ![p] = [NoReq EXCEPT !.op = "delete", !.user = u, !.id = id,
                                                    !.selectFails = fails]]
         /\ IF fails
            THEN Respond(p, 500, "Server error")
            ELSE IF SelectTicket(id, u, users[u].role = "user") = {}
            THEN Respond(p, 404, "Ticket not found")
            ELSE IF IsClosed(tickets[id])
            THEN Respond(p, 400, "Cannot delete a closed ticket")
            ELSE IF unlinkFails
            THEN Respond(p, 500, "Server error")
            ELSE /\ pc' = [pc EXCEPT ![p] = "d_delete"]
                 /\ UNCHANGED res
         /\ IF ReachesPhoto(id, u, fails) /\ PhotoOnDisk(id) /\ ~unlinkFails
            THEN uploads' = Unlink(tickets[id].photo_url)
            ELSE UNCHANGED uploads
    /\ UNCHANGED <<users, tickets, ticket_updates, nextTicketId, frame, tx, lastIssued, checkedOut>>

\* DELETE FROM tickets WHERE id = ?, with ticket_updates ON DELETE CASCADE
DeleteExec(p) ==
    /\ pc[p] = "d_delete"
    /\ ~LockedByOther(p, req[p].id)
    /\ tickets' = [t \in DOMAIN tickets \ {req[p].id} |-> tickets[t]]
    /\ ticket_updates' = [ticket_updates EXCEPT ![req[p].id] = <<>>]
    /\ Respond(p, 200, "Ticket deleted successfully")
    /\ UNCHANGED <<users, nextTicketId, req, frame, tx, lastIssued, uploads, checkedOut>>

(* --------------------------- GET /api/tickets --------------------------- *)
\* Number(created_by) of a non-empty string without blanks
JsNumber(s) == IF \A i \in 1..Len(s) : IsDigit(s[i]) THEN DigitsValue(s, 0) ELSE NaN

\* col LIKE '%term%'
Like(col, term) == \E i \in 1..(Len(col) + 1) : StartsWithAt(col, term, i)

\* query strings: filters absent or given; the search terms are digit strings,
\* which occur in ticket numbers and in no other text column of the tickets here
ListQueries ==
    {q \in [status : {NULL, "Pending"}, department : {NULL, "HR"},
            search : {<<>>, NumToString(2)}, created_by : {<<>>, NumToString(1)},
            page : {1, 2}, limit : {1, 10}] :
        \* a second page of ten is empty for the tickets here
        q.limit = 10 => q.page = 1}

\* mutation of ScopedToCaller: only role 'user' is scoped, as in the by-id handlers
ScopedToCaller_userOnly(role) == role = "user"

\* String(req.user.role || '').toLowerCase() !== 'admin'
ScopedToCaller(role) == role # "admin"

\* the WHERE clause built from the caller and the query string
ListWhere(t, u, role, q) ==
    /\ IF ScopedToCaller(role) THEN tickets[t].created_by = u
       ELSE (q.created_by # <<>> /\ JsNumber(q.created_by) # NaN)
                => tickets[t].created_by = JsNumber(q.created_by)
    /\ q.status # NULL => tickets[t].status = q.status
    /\ q.department # NULL => tickets[t].department = q.department
    /\ q.search # <<>> => Like(tickets[t].ticket_number, q.search)

\* the ids of S, latest first (ORDER BY created_at DESC)
RECURSIVE Descending(_)
Descending(S) == IF S = {} THEN <<>>
                 ELSE LET m == CHOOSE x \in S : \A y \in S : y <= x
                      IN  <<m>> \o Descending(S \ {m})

\* LIMIT ? OFFSET ?
LimitOffset(seq, limit, offset) ==
    SubSeq(seq, offset + 1, IF offset + limit < Len(seq) THEN offset + limit ELSE Len(seq))

\* the caller's role as the auth middleware put it in req.user
ListTickets(p) ==
    /\ pc[p] = "idle"
    /\ \E u \in DOMAIN users, q \in ListQueries, fails \in BOOLEAN :
         /\ req' = [req EXCEPT ![p] = [NoReq EXCEPT !.op = "list", !.user = u, !.query = q,
                                                    !.role = users[u].role]]
         /\ IF fails
            THEN /\ Respond(p, 500, "Server error")
                 /\ UNCHANGED frame
            ELSE /\ frame' = [frame EXCEPT ![p] = [NoFrame EXCEPT !.total =
                        Cardinality({t \in DOMAIN tickets : ListWhere(t, u, users[u].role, q)})]]
                 /\ pc' = [pc EXCEPT ![p] = "l_rows"]
                 /\ UNCHANGED res
    /\ UNCHANGED <<users, tickets, ticket_updates, nextTicketId, tx, lastIssued, uploads, checkedOut>>

ListRows(p) ==
    /\ pc[p] = "l_rows"
    /\ LET q == req[p].query
           found == {t \in DOMAIN tickets : ListWhere(t, req[p].user, req[p].role, q)}
       IN  frame' = [frame EXCEPT ![p].rows =
                        LimitOffset(Descending(found), q.limit, (q.page - 1) * q.limit)]
    /\ Respond(p, 200, "")
    /\ UNCHANGED <<users, tickets, ticket_updates, nextTicketId, req, tx, lastIssued, uploads, checkedOut>>

(* ------------- GET /api/tickets/:id, GET /api/tickets/:id/history -------- *)
\* both handlers: the scoped SELECT of the ticket, then the SELECT of its updates
ReadTicket(p, op, next) ==
    /\ \E u \in DOMAIN users, id \in RequestIds, fails \in BOOLEAN :
         /\ req' = [req EXCEPT ![p] = [NoReq EXCEPT !.op = op, !.user = u, !.id = id,
                                                    !.selectFails = fails]]
         /\ IF fails
            THEN /\ Respond(p, 500, "Server error")
                 /\ UNCHANGED frame
            ELSE IF SelectTicket(id, u, users[u].role = "user") = {}
            THEN /\ Respond(p, 404, "Ticket not found")
                 /\ UNCHANGED frame
            ELSE /\ frame' = [frame EXCEPT ![p] = [NoFrame EXCEPT !.rows = <<id>>]]
                 /\ pc' = [pc EXCEPT ![p] = next]
                 /\ UNCHANGED res
    /\ UNCHANGED <<users, tickets, ticket_updates, nextTicketId, tx, lastIssued, uploads, checkedOut>>

\* SELECT tu.* FROM ticket_updates tu JOIN users u ON tu.user_id = u.id WHERE tu.ticket_id = ?
ReadUpdates(p) ==
    /\ frame' = [frame EXCEPT ![p].updates =
                    SelectSeq(ticket_updates[req[p].id], LAMBDA r : r.user_id \in DOMAIN users)]
    /\ Respond(p, 200, "")
    /\ UNCHANGED <<users, tickets, ticket_updates, nextTicketId, req, tx, lastIssued, uploads, checkedOut>>

ViewTicket(p) ==
    /\ pc[p] = "idle"
    /\ ReadTicket(p, "view", "v_updates")

ViewUpdates(p) ==
    /\ pc[p] = "v_updates"
    /\ ReadUpdates(p)

TicketHistory(p) ==
    /\ pc[p] = "idle"
    /\ ReadTicket(p, "history", "h_updates")

HistoryUpdates(p) ==
    /\ pc[p] = "h_updates"
    /\ ReadUpdates(p)

Reads(p) ==
    \/ ListTickets(p)
    \/ ListRows(p)
    \/ ViewTicket(p)
    \/ ViewUpdates(p)
    \/ TicketHistory(p)
    \/ HistoryUpdates(p)

(* ------------------------ DELETE /api/users/:id ------------------------- *)
\* the :id path segment as the client may write it: the decimal of an id in
\* use or not, or the same number in scientific notation
UserIdParams == {NumToString(n) : n \in 1..4} \cup {Scientific(n) : n \in 1..3}

\* SELECT id FROM users WHERE id = ?
SelectUser(param) == {x \in DOMAIN users : SqlEqualsInt(param, x)}

\* parseInt(id) === req.user.id
IsSelf(param, u) == ParseInt(param) = u

\* the handler up to its first suspension, for an :id drawn from params
DeleteUserWith(p, params) ==
    /\ \E u \in DOMAIN users, param \in params, fails \in BOOLEAN :
         /\ fails => RequireAdmin(users[u].role) /\ ~IsSelf(param, u)
         /\ req' = [req EXCEPT ![p] = [NoReq EXCEPT !.op = "delete_user", !.user = u,
                                                    !.param = param]]
         /\ IF ~RequireAdmin(users[u].role)
            THEN Respond(p, 403, "Access denied")
            ELSE IF IsSelf(param, u)
            THEN Respond(p, 400, "Cannot delete your own account")
            ELSE IF fails
            THEN Respond(p, 500, "Server error")
            ELSE IF SelectUser(param) = {}
            THEN Respond(p, 404, "User not found")
            ELSE /\ pc' = [pc EXCEPT ![p] = "u_delete"]
                 /\ UNCHANGED res
    /\ UNCHANGED <<users, tickets, ticket_updates, nextTicketId, frame, tx, lastIssued, uploads, checkedOut>>

DeleteUser(p) ==
    /\ pc[p] = "idle"
    /\ DeleteUserWith(p, UserIdParams)

\* the :id written as a plain decimal
DecimalIdParams == {NumToString(n) : n \in 1..4}

DeleteUserDecimal(p) ==
    /\ pc[p] = "idle"
    /\ DeleteUserWith(p, DecimalIdParams)

\* mutation of CascadeDeleteUsers: assigned_to has no ON DELETE SET NULL and
\* keeps the id of the deleted account
CascadeDeleteUsers_keepsAssignee(gone) ==
    LET dead == {t \in DOMAIN tickets : tickets[t].created_by \in gone}
    IN  /\ users' = [x \in DOMAIN users \ gone |-> users[x]]
        /\ tickets' = [t \in DOMAIN tickets \ dead |-> tickets[t]]
        /\ ticket_updates' = [t \in TicketIds |->
                                IF t \in dead THEN <<>>
                                ELSE SelectSeq(ticket_updates[t], LAMBDA r : r.user_id \notin gone)]

\* DELETE FROM users WHERE id = ?, with tickets.created_by and
\* ticket_updates.user_id ON DELETE CASCADE and tickets.assigned_to ON DELETE SET NULL
CascadeDeleteUsers(gone) ==
    LET dead == {t \in DOMAIN tickets : tickets[t].created_by \in gone}
    IN  /\ users' = [x \in DOMAIN users \ gone |-> users[x]]
        /\ tickets' = [t \in DOMAIN tickets \ dead |->
                         IF tickets[t].assigned_to \in gone
                         THEN [tickets[t] EXCEPT !.assigned_to = NoUser]
                         ELSE tickets[t]]
        /\ ticket_updates' = [t \in TicketIds |->
                                IF t \in dead THEN <<>>
                                ELSE SelectSeq(ticket_updates[t], LAMBDA r : r.user_id \notin gone)]

DeleteUserExec(p) ==
    /\ pc[p] = "u_delete"
    /\ \A t \in DOMAIN tickets : ~LockedByOther(p, t)
    /\ CascadeDeleteUsers(SelectUser(req[p].param))
    /\ Respond(p, 200, "User deleted successfully")
    /\ UNCHANGED <<nextTicketId, req, frame, tx, lastIssued, uploads, checkedOut>>

(* -------------------------- PUT /api/users/:id --------------------------- *)
ValidRoles == {"user", "admin", "it"}
\* of the optional body fields the requests supply role or nothing: a demotion,
\* a value outside the enumeration, or no field at all
RoleInputs == {NULL, "user", "owner"}

UpdateUser(p) ==
    /\ pc[p] = "idle"
    /\ \E u \in DOMAIN users, param \in UserIdParams, role \in RoleInputs :
         /\ req' = [req EXCEPT ![p] = [NoReq EXCEPT !.op = "update_user", !.user = u,
                                                    !.param = param, !.role = role]]
         /\ IF ~RequireAdmin(users[u].role)
            THEN Respond(p, 403, "Access denied")
            ELSE IF role # NULL /\ role \notin ValidRoles
            THEN Respond(p, 400, "Invalid role")
            ELSE IF SelectUser(param) = {}
            THEN Respond(p, 404, "User not found")
            ELSE IF role = NULL
            THEN Respond(p, 400, "No fields to update")
            ELSE /\ pc' = [pc EXCEPT ![p] = "u_update"]
                 /\ UNCHANGED res
    /\ UNCHANGED <<users, tickets, ticket_updates, nextTicketId, frame, tx, lastIssued, uploads, checkedOut>>

\* UPDATE users SET role = ? WHERE id = ?
UpdateUserExec(p) ==
    /\ pc[p] = "u_update"
    /\ users' = [x \in DOMAIN users |->
                   IF SqlEqualsInt(req[p].param, x)
                   THEN [users[x] EXCEPT !.role = req[p].role]
                   ELSE users[x]]
    /\ Respond(p, 200, "User updated successfully")
    /\ UNCHANGED <<tickets, ticket_updates, nextTicketId, req, frame, tx, lastIssued, uploads, checkedOut>>

UserAdmin(p) ==
    \/ DeleteUser(p)
    \/ DeleteUserExec(p)
    \/ UpdateUser(p)
    \/ UpdateUserExec(p)

Create(p) ==
    \/ CreateTicket(p)
    \/ CreateLockingRead(p)
    \/ CreateInsertTicket(p)
    \/ CreateInsertUpdate(p)
    \/ CreateCommit(p)
    \/ CreateStatementFails(p)
    \/ CreateCatch(p)
    \/ CreateRollbackFails(p)

Delete(p) ==
    \/ DeleteTicket(p)
    \/ DeleteExec(p)

Lifecycle(p) ==
    \/ ChangeStatus(p)
    \/ StatusUpdate(p)
    \/ StatusInsert(p)
    \/ AddNote(p)
    \/ NoteInsert(p)

Notes(p) ==
    \/ AddNote(p)
    \/ NoteInsert(p)

Next == \E p \in Procs : Create(p) \/ Lifecycle(p) \/ Delete(p) \/ UserAdmin(p) \/ Reads(p)
                            \/ StatementFails(p) \/ Reply(p)

Spec == Init /\ [][Next]_vars

\* ticket numbering: creations and deletions only
NextAlloc == \E p \in Procs : Create(p) \/ Delete(p) \/ StatementFails(p) \/ Reply(p)

SpecAlloc == Init /\ [][NextAlloc]_vars

\* the life of one ticket: status changes, notes and deletion
NextLife == \E p \in Procs : Lifecycle(p) \/ Delete(p) \/ StatementFails(p) \/ Reply(p)

SpecLife == InitLife /\ [][NextLife]_vars

\* user management next to notes on one ticket
NextStaff == \E p \in Procs : Notes(p) \/ UserAdmin(p) \/ StatementFails(p) \/ Reply(p)

SpecStaff == InitStaff /\ [][NextStaff]_vars

\* creations by callers of the three roles
NextCreate == \E p \in Procs : Create(p) \/ Reply(p)

SpecDept == InitDept /\ [][NextCreate]_vars

\* deletion of a ticket with a photo, next to notes on it
NextPhoto == \E p \in Procs : Delete(p) \/ Notes(p) \/ StatementFails(p) \/ Reply(p)

SpecPhoto == InitPhoto /\ [][NextPhoto]_vars

\* listing next to deletions
NextList == \E p \in Procs : ListTickets(p) \/ ListRows(p) \/ Delete(p)
                                \/ StatementFails(p) \/ Reply(p)

SpecList == InitRead /\ [][NextList]_vars

\* the by-id operations on two tickets of different creators
NextScope == \E p \in Procs : ViewTicket(p) \/ ViewUpdates(p) \/ TicketHistory(p)
                                 \/ HistoryUpdates(p) \/ Notes(p) \/ Delete(p)
                                 \/ StatementFails(p) \/ Reply(p)

SpecScope == InitRead /\ [][NextScope]_vars

\* deletion of accounts next to deletion of tickets, over assigned tickets
NextCascade == \E p \in Procs : DeleteUser(p) \/ DeleteUserExec(p) \/ Delete(p)
                                   \/ StatementFails(p) \/ Reply(p)

SpecCascade == InitAssigned /\ [][NextCascade]_vars

\* creations and deletions on a server that goes on serving: a step that can
\* be taken is taken
SpecAllocFair == Init /\ [][NextAlloc]_vars /\ WF_vars(NextAlloc)

\* creations over a table that holds a legacy ticket number
SpecSuffix == InitSuffix /\ [][NextCreate]_vars

\* change-status requests alone, every statement succeeding
NextRace == \E p \in Procs : ChangeStatus(p) \/ StatusUpdate(p) \/ StatusInsert(p) \/ Reply(p)

SpecRace == InitLife /\ [][NextRace]_vars

\* delete-user requests of two admins, each naming an account by its decimal id
NextAdmins == \E p \in Procs : DeleteUserDecimal(p) \/ DeleteUserExec(p)
                                  \/ StatementFails(p) \/ Reply(p)

SpecAdmins == InitAdmins /\ [][NextAdmins]_vars

(* ============================== properties ============================== *)
InCreateTx == {"c_insert", "c_audit", "c_commit"}

YearPrefix == Prefix \o NumToString(CurrentYear)

\* the sequence a ticket number carries after TKT<year>
SeqOf(num) == ParseInt(Replace(num, YearPrefix))

RECURSIVE MaxOf(_)
MaxOf(S) == IF S = {} THEN 0
            ELSE LET x == CHOOSE y \in S : TRUE
                     m == MaxOf(S \ {x})
                 IN  IF x > m THEN x ELSE m

\* the numerically largest sequence among the committed tickets of the year
MaxSeq == MaxOf({SeqOf(tickets[t].ticket_number) :
                    t \in {x \in DOMAIN tickets : tickets[x].created_year = CurrentYear}})

StatusChanges(t) == SelectSeq(ticket_updates[t], LAMBDA r : r.update_type = "status_change")

\* p's request is answered in this step
Answered(p) == pc[p] # "done" /\ pc'[p] = "done"

\* p's request arrives in this step
Started(p) == pc[p] = "idle" /\ pc'[p] # "idle"

TablesUnchanged == tickets' = tickets /\ ticket_updates' = ticket_updates

\* C1: in every reachable state the ticket numbers of the committed tickets are
\* pairwise distinct, whatever the interleaving of concurrent creations.
C1_TicketNumbersDistinct ==
    \A a, b \in DOMAIN tickets :
        a # b => tickets[a].ticket_number # tickets[b].ticket_number

\* two creations that were in flight together have both committed
C1_Witness ==
    \E p, q \in Procs :
        /\ p # q
        /\ pc[p] = "done" /\ req[p].op = "create" /\ res[p].code = 201
        /\ pc[q] = "done" /\ req[q].op = "create" /\ res[q].code = 201
        /\ frame[p].insertId \in DOMAIN tickets
        /\ frame[q].insertId \in DOMAIN tickets

\* C2: the locking read serialises concurrent creations, so two transactions
\* that are open together never hold the same next sequence value, also when
\* the read found no ticket for the year.
C2_NeverSameNextCount ==
    \A p, q \in Procs :
        (p # q /\ pc[p] \in InCreateTx /\ pc[q] \in InCreateTx)
            => frame[p].nextCount # frame[q].nextCount

\* C3: Closed is terminal: a ticket whose status is Closed keeps that status in
\* every later state in which it still exists.
C3_ClosedIsTerminal ==
    [][\A t \in DOMAIN tickets :
          (tickets[t].status = "Closed" /\ t \in DOMAIN tickets')
              => tickets'[t].status = "Closed"]_vars

\* C4: no row follows, in a ticket's history, the status_change row that set
\* the ticket to Closed.
C4_NothingAfterClose ==
    \A t \in TicketIds : \A i \in 1..Len(ticket_updates[t]) :
        (ticket_updates[t][i].update_type = "status_change"
            /\ ticket_updates[t][i].new_value = "Closed")
        => i = Len(ticket_updates[t])

\* the request reaches the handler's Closed check: it is authorised and valid,
\* its SELECT succeeds and finds the ticket within the caller's scope
ReachesClosedCheck(r) ==
    /\ ~r.selectFails
    /\ r.op = "status" => RequireAdmin(users[r.user].role) /\ r.status \in ValidStatuses
    /\ r.op = "note" => r.notes # ""
    /\ r.op \in {"note", "delete"} =>
            (users[r.user].role = "user" => tickets[r.id].created_by = r.user)

ClosedMessage(op) == IF op = "delete" THEN "Cannot delete a closed ticket"
                     ELSE "Cannot modify a closed ticket"

\* C5: a change-status, add-note or delete-ticket request that arrives while
\* the ticket's stored status is Closed is answered at once with an error and
\* changes neither the ticket row nor any TicketUpdate row; when it reaches
\* the handler's Closed check the answer is the forbidden-state error
\* ('Cannot modify a closed ticket' / 'Cannot delete a closed ticket').
C5_ClosedRejects ==
    [][\A p \in Procs :
          (/\ Started(p)
           /\ req'[p].op \in {"status", "note", "delete"}
           /\ req'[p].id \in DOMAIN tickets
           /\ tickets[req'[p].id].status = "Closed")
          => /\ pc'[p] = "done"
             /\ res'[p].code \in {400, 403, 404, 500}
             /\ TablesUnchanged
             /\ ReachesClosedCheck(req'[p])
                  => res'[p] = [code |-> 400, message |-> ClosedMessage(req'[p].op)]]_vars

\* each of the three operations has been refused on a closed ticket
C5_Witness ==
    \E p \in Procs :
        /\ pc[p] = "done"
        /\ req[p].op = "note"
        /\ req[p].id \in DOMAIN tickets
        /\ tickets[req[p].id].status = "Closed"
        /\ res[p] = [code |-> 400, message |-> "Cannot modify a closed ticket"]

\* C6: change-status is atomic: whenever no change-status request is in flight
\* on a ticket, its status is the new_value of its latest status_change row.
C6_StatusMatchesAudit ==
    \A t \in DOMAIN tickets :
        (\A q \in Procs : ~(pc[q] \in {"s_update", "s_insert"} /\ req[q].id = t))
        => /\ StatusChanges(t) # <<>>
           /\ StatusChanges(t)[Len(StatusChanges(t))].new_value = tickets[t].status

\* C7: create-ticket is atomic: a creation answered with an error leaves the
\* tables as they were and neither its ticket row nor its audit row is
\* visible; a ticket row and its first audit row become visible in one step.
C7_CreateAtomic ==
    [][/\ \A p \in Procs :
            (Answered(p) /\ req[p].op = "create" /\ res'[p].code # 201)
            => /\ TablesUnchanged
               /\ frame[p].insertId # 0 =>
                    /\ frame[p].insertId \notin DOMAIN tickets'
                    /\ ticket_updates'[frame[p].insertId] = <<>>
       /\ \A t \in TicketIds :
            (t \notin DOMAIN tickets /\ t \in DOMAIN tickets')
            <=> (ticket_updates[t] = <<>> /\ ticket_updates'[t] # <<>>)]_vars

\* a creation failed after its ticket row had been inserted
C7_Witness ==
    \E p \in Procs :
        /\ pc[p] = "done" /\ req[p].op = "create"
        /\ res[p].code = 500
        /\ frame[p].insertId # 0

\* C8: right after a successful create-ticket the ticket is Pending and its
\* history is exactly one status_change row, old_value null, new_value
\* Pending, notes 'Ticket created', by the creator.
C8_CreatedPending ==
    [][\A p \in Procs :
          (Answered(p) /\ req[p].op = "create" /\ res'[p].code = 201)
          => /\ frame[p].insertId \in DOMAIN tickets'
             /\ tickets'[frame[p].insertId].status = "Pending"
             /\ tickets'[frame[p].insertId].created_by = req[p].user
             /\ ticket_updates'[frame[p].insertId] =
                  <<[user_id |-> req[p].user, update_type |-> "status_change",
                     old_value |-> NULL, new_value |-> "Pending",
                     notes |-> "Ticket created"]>>]_vars

\* a creation has just been answered 201
C8_Witness ==
    \E p \in Procs :
        /\ pc[p] = "done" /\ req[p].op = "create" /\ res[p].code = 201
        /\ frame[p].insertId \in DOMAIN tickets
        /\ Len(ticket_updates[frame[p].insertId]) = 1

\* C9: every ticket number is TKT<year><seq>; the first ticket created in the
\* year gets seq 1 and every later one a seq exactly 1 greater than that of
\* the ticket created before it, over any creations and deletions.
C9_SequenceStepsByOne ==
    [][\A p \in Procs :
          (Answered(p) /\ req[p].op = "create" /\ res'[p].code = 201)
          => /\ StartsWithAt(frame[p].ticket_number, YearPrefix, 1)
             /\ SeqOf(frame[p].ticket_number) =
                  (IF lastIssued = <<>> THEN 1 ELSE SeqOf(lastIssued) + 1)]_vars

\* C10: the locking read picks the ticket with the numerically largest
\* sequence, so the next sequence is that plus one, also past 9999, and the
\* number is formatted without truncation.
C10_NextPastPadding ==
    [][\A p \in Procs :
          (pc[p] = "c_lock" /\ pc'[p] = "c_insert")
          => /\ frame'[p].nextCount = MaxSeq + 1
             /\ SeqOf(frame'[p].ticket_number) = frame'[p].nextCount]_vars

\* C11: the audit log is append-only: while a ticket exists, every row of its
\* history stays in place and unchanged, whatever operation runs, update-user
\* and delete-user of the row's actor included.
C11_HistoryAppendOnly ==
    [][\A t \in DOMAIN tickets \cap DOMAIN tickets' :
          /\ Len(ticket_updates'[t]) >= Len(ticket_updates[t])
          /\ \A i \in 1..Len(ticket_updates[t]) :
                ticket_updates'[t][i] = ticket_updates[t][i]]_vars

\* C12: a ticket in status Closed is never removed and none of its fields
\* changes, whatever write operation runs, delete-user of its creator or
\* assignee included.
C12_ClosedTicketStays ==
    [][\A t \in DOMAIN tickets :
          tickets[t].status = "Closed"
              => (t \in DOMAIN tickets' /\ tickets'[t] = tickets[t])]_vars

\* C13: every ticket that list-tickets returns to a caller whose role is not
\* admin was created by that caller, whatever the query parameters.
C13_ListOnlyOwn ==
    [][\A p \in Procs :
          (Answered(p) /\ req[p].op = "list" /\ req[p].role # "admin")
          => \A i \in 1..Len(frame'[p].rows) :
                /\ frame'[p].rows[i] \in DOMAIN tickets
                /\ tickets[frame'[p].rows[i]].created_by = req[p].user]_vars

\* a user who asked for the admin's tickets got their own ticket
C13_Witness ==
    \E p \in Procs :
        /\ pc[p] = "done" /\ req[p].op = "list" /\ res[p].code = 200
        /\ req[p].role = "user"
        /\ req[p].query.created_by = NumToString(1)
        /\ frame[p].rows = <<1>>

\* what a by-id request is answered when no ticket has the id
MissingResponse(r) ==
    IF r.op = "note" /\ r.notes = "" THEN [code |-> 400, message |-> "Notes are required"]
    ELSE IF r.selectFails THEN [code |-> 500, message |-> "Server error"]
    ELSE [code |-> 404, message |-> "Ticket not found"]

ByIdOps == {"view", "history", "note", "delete"}

\* C14: for a caller of role user, view-ticket, ticket-history, add-note and
\* delete-ticket on a ticket created by someone else are answered exactly as
\* on an id no ticket has, return no data and change no state.
C14_ForeignLooksMissing ==
    [][\A p \in Procs :
          (/\ Started(p)
           /\ req'[p].op \in ByIdOps
           /\ users[req'[p].user].role = "user"
           /\ \/ req'[p].id \notin DOMAIN tickets
              \/ tickets[req'[p].id].created_by # req'[p].user)
          => /\ pc'[p] = "done"
             /\ res'[p] = MissingResponse(req'[p])
             /\ frame'[p].rows = <<>> /\ frame'[p].updates = <<>>
             /\ TablesUnchanged /\ users' = users /\ uploads' = uploads]_vars

\* the user has been refused another creator's ticket that exists
C14_Witness ==
    \E p \in Procs :
        /\ pc[p] = "done" /\ req[p].op \in {"view", "delete"}
        /\ req[p].user \in DOMAIN users /\ users[req[p].user].role = "user"
        /\ req[p].id \in DOMAIN tickets
        /\ tickets[req[p].id].created_by # req[p].user
        /\ res[p] = [code |-> 404, message |-> "Ticket not found"]

\* C15: a ticket created by a caller who is not admin (user or it) is stored
\* and returned with the caller's own department, whatever the request body
\* says; an admin's ticket gets the department the admin supplied, and an
\* admin's request without a department is refused with a validation error
\* and creates nothing.
C15_DepartmentForced ==
    [][\A p \in Procs :
          /\ (Answered(p) /\ req[p].op = "create" /\ res'[p].code = 201)
              => LET caller == users[req[p].user]
                     expected == IF caller.role = "admin" THEN req[p].department
                                 ELSE caller.department
                 IN  /\ expected # NULL
                     /\ tickets'[frame[p].insertId].department = expected
                     /\ frame'[p].department = expected
          /\ (Started(p) /\ req'[p].op = "create"
                /\ users[req'[p].user].role = "admin" /\ req'[p].department = NULL)
              => /\ pc'[p] = "done" /\ res'[p].code = 400
                 /\ TablesUnchanged /\ nextTicketId' = nextTicketId
                 /\ checkedOut' = checkedOut]_vars

\* the it account asked for department HR and its ticket carries its own
C15_Witness ==
    \E p \in Procs :
        /\ pc[p] = "done" /\ req[p].op = "create" /\ res[p].code = 201
        /\ users[req[p].user].role = "it"
        /\ req[p].department = "HR"
        /\ frame[p].insertId \in DOMAIN tickets
        /\ tickets[frame[p].insertId].department = "IT Department"

\* C18: a creation whose ticket insert hit the uniqueness constraint is rolled
\* back whole (neither its ticket row nor an audit row is visible), its
\* connection is released, and it is answered 409 'Duplicate ticket number
\* generated; please retry'; a creation that failed otherwise is answered 500.
C18_DuplicateAnswered409 ==
    [][\A p \in Procs :
          (Answered(p) /\ req[p].op = "create" /\ frame[p].error # NULL)
          => IF frame[p].error = "ER_DUP_ENTRY"
             THEN /\ res'[p] = [code |-> 409,
                                message |-> "Duplicate ticket number generated; please retry"]
                  /\ TablesUnchanged
                  /\ tx'[p] = NoTx
                  /\ checkedOut' = checkedOut - 1
             ELSE res'[p] = [code |-> 500, message |-> "Server error"]]_vars

\* C16: after a successful delete-ticket the ticket row is gone, no
\* TicketUpdate row of that ticket id is left and the photo file the ticket
\* referred to no longer exists; and a delete-ticket request that failed
\* leaves the photo file of the ticket, which still exists, in place.
C16_DeleteRemovesAll ==
    [][\A p \in Procs :
          (Answered(p) /\ req[p].op = "delete")
          => IF res'[p].code = 200
             THEN /\ req[p].id \notin DOMAIN tickets'
                  /\ ticket_updates'[req[p].id] = <<>>
                  /\ (req[p].id \in DOMAIN tickets /\ tickets[req[p].id].photo_url # NULL)
                        => tickets[req[p].id].photo_url \notin uploads'
             ELSE (req'[p].id \in DOMAIN tickets' /\ tickets'[req'[p].id].photo_url # NULL)
                        => tickets'[req'[p].id].photo_url \in uploads']_vars

\* C17: photo removal is best-effort: a delete-ticket request that found its
\* ticket open goes on to delete the ticket row whether the photo file was
\* absent, was removed, or could not be removed.
C17_PhotoBestEffort ==
    [][\A p \in Procs :
          (/\ Started(p) /\ req'[p].op = "delete"
           /\ ~req'[p].selectFails
           /\ req'[p].id \in DOMAIN tickets
           /\ tickets[req'[p].id].status # "Closed"
           /\ (users[req'[p].user].role = "user"
                  => tickets[req'[p].id].created_by = req'[p].user))
          => pc'[p] = "d_delete"]_vars

\* C19: business-rule rejections are decided before any mutating statement: a
\* change-status request with a status outside Pending, In Progress, On Hold,
\* Done, Closed, or for an id no ticket has, and an add-note or delete-ticket
\* request for an id no ticket has, are answered with the validation or
\* not-found error in their first step and leave tickets and ticket_updates as
\* they were.
C19_RejectedBeforeWrite ==
    [][\A p \in Procs :
          LET r == req'[p]
              allowed == r.op = "status" => RequireAdmin(users[r.user].role)
              badStatus == r.op = "status"
                           /\ r.status \notin {"Pending", "In Progress", "On Hold", "Done", "Closed"}
              wellFormed == ~badStatus /\ ~r.selectFails /\ (r.op = "note" => r.notes # "")
          IN  (Started(p) /\ r.op \in {"status", "note", "delete"} /\ allowed)
              => /\ badStatus
                    => /\ res'[p] = [code |-> 400, message |-> "Invalid status"]
                       /\ pc'[p] = "done" /\ TablesUnchanged
                 /\ (wellFormed /\ r.id \notin DOMAIN tickets)
                    => /\ res'[p] = [code |-> 404, message |-> "Ticket not found"]
                       /\ pc'[p] = "done" /\ TablesUnchanged]_vars

\* an invalid status and a missing ticket have both been refused
C19_Witness ==
    \E p, q \in Procs :
        /\ pc[p] = "done" /\ req[p].op = "status" /\ req[p].status = "Reopened"
        /\ res[p] = [code |-> 400, message |-> "Invalid status"]
        /\ pc[q] = "done" /\ req[q].op \in {"note", "delete"}
        /\ req[q].id \notin DOMAIN tickets
        /\ res[q] = [code |-> 404, message |-> "Ticket not found"]

\* C20: no delete-user request removes the account of the caller who issued
\* it; a request by a caller allowed to manage users whose id names the
\* caller's own account is answered 'Cannot delete your own account' and
\* leaves the users table as it was.
C20_NoSelfDelete ==
    [][\A p \in Procs :
          /\ (req[p].op = "delete_user" /\ Answered(p) /\ req[p].user \in DOMAIN users)
                => req[p].user \in DOMAIN users'
          /\ (Answered(p) /\ req[p].op = "delete_user"
                /\ req[p].user \in DOMAIN users
                /\ RequireAdmin(users[req[p].user].role)
                /\ SqlEqualsInt(req[p].param, req[p].user))
                => /\ res'[p] = [code |-> 400, message |-> "Cannot delete your own account"]
                   /\ users' = users]_vars

\* C21: a successful delete-user removes every ticket whose created_by is the
\* deleted account, with the updates of those tickets, sets assigned_to to
\* null on every ticket assigned to the account, and leaves every other row of
\* tickets, and every other account, as it was.
C21_DeleteUserCascades ==
    [][\A p \in Procs :
          (Answered(p) /\ req[p].op = "delete_user" /\ res'[p].code = 200)
          => LET gone == DOMAIN users \ DOMAIN users'
             IN  /\ DOMAIN users' \subseteq DOMAIN users
                 /\ \A x \in DOMAIN users' : users'[x] = users[x]
                 /\ DOMAIN tickets' \subseteq DOMAIN tickets
                 /\ \A t \in DOMAIN tickets :
                      IF tickets[t].created_by \in gone
                      THEN t \notin DOMAIN tickets' /\ ticket_updates'[t] = <<>>
                      ELSE /\ t \in DOMAIN tickets'
                           /\ tickets'[t] = IF tickets[t].assigned_to \in gone
                                            THEN [tickets[t] EXCEPT !.assigned_to = NoUser]
                                            ELSE tickets[t]]_vars

\* the user's account has been deleted: the ticket they filed is gone, the
\* ticket assigned to them is unassigned and the third ticket is as it was
C21_Witness ==
    \E p \in Procs :
        /\ pc[p] = "done" /\ req[p].op = "delete_user" /\ res[p].code = 200
        /\ 2 \notin DOMAIN users
        /\ 1 \notin DOMAIN tickets /\ ticket_updates[1] = <<>>
        /\ 2 \in DOMAIN tickets /\ tickets[2].assigned_to = NoUser /\ tickets[2].created_by = 1
        /\ 3 \in DOMAIN tickets /\ tickets[3].assigned_to = 3

\* some ticket has an assignee
SomeTicketAssigned == \E t \in DOMAIN tickets : tickets[t].assigned_to # NoUser

\* C22: the ticket API has an assign operation through which a ticket's
\* assigned_to becomes a user: the served requests lead to a state in which
\* some ticket has an assignee.
C22_AssignReachable == <>SomeTicketAssigned

\* a create-ticket request is between getConnection and its answer
CreatePcs == {"c_lock", "c_insert", "c_audit", "c_commit", "c_catch"}

\* C23: a create-ticket request resubmitted after the duplicate conflict
\* recomputes a fresh sequence value: when its locking read runs while no
\* other creation is in flight, the ticket number it computes is the number
\* of no existing ticket, so creation is never stuck on the same duplicate
\* number.
C23_RetryComputesFresh ==
    [][\A p \in Procs :
          (/\ pc[p] = "c_lock" /\ pc'[p] = "c_insert"
           /\ \A q \in Procs \ {p} : pc[q] \notin CreatePcs)
          => \A t \in DOMAIN tickets :
                tickets[t].ticket_number # frame'[p].ticket_number]_vars

\* the ticket whose number the locking read finds: the highest of the year
IsHighest(t) ==
    /\ t \in DOMAIN tickets /\ tickets[t].created_year = CurrentYear
    /\ \A o \in DOMAIN tickets \ {t} :
          tickets[o].created_year = CurrentYear
              => StrLess(tickets[o].ticket_number, tickets[t].ticket_number)

\* what is left of a ticket number after TKT<year> is removed
Suffix(t) == Replace(tickets[t].ticket_number, YearPrefix)

\* C24: the sequence computed by create-ticket is 1 when no ticket exists for
\* the year, 1 when the suffix of the year's highest ticket number does not
\* parse as an integer (the computation does not fail), and n + 1 when the
\* suffix parses to n.
C24_SequenceFromSuffix ==
    [][\A p \in Procs :
          (pc[p] = "c_lock" /\ pc'[p] = "c_insert")
          => /\ (\A t \in DOMAIN tickets : tickets[t].created_year # CurrentYear)
                    => frame'[p].nextCount = 1
             /\ \A t \in DOMAIN tickets :
                    IsHighest(t)
                    => frame'[p].nextCount =
                          (IF Suffix(t) = <<>> \/ ~IsDigit(Head(Suffix(t))) THEN 1
                           ELSE DigitsValue(TakeDigits(Suffix(t)), 0) + 1)]_vars

\* a creation found TKT<year>ABCD as the highest number and was answered with
\* sequence 1
C24_Witness ==
    \E p \in Procs :
        /\ pc[p] = "done" /\ req[p].op = "create" /\ res[p].code = 201
        /\ frame[p].nextCount = 1
        /\ frame[p].ticket_number = FormatTicketNumber(CurrentYear, 1)
        /\ 1 \in DOMAIN tickets
        /\ tickets[1].ticket_number = YearPrefix \o <<65, 66, 67, 68>>

\* C25: a successful add-note appends exactly one row to the ticket's history,
\* of type note, with null old_value and new_value and the caller as actor,
\* and leaves every row of tickets (status, ticket_number, assigned_to) and
\* every other TicketUpdate row as it was.
C25_NoteAppendsOneRow ==
    [][\A p \in Procs :
          (Answered(p) /\ req[p].op = "note" /\ res'[p].code = 200)
          => /\ tickets' = tickets
             /\ users' = users
             /\ ticket_updates' =
                  [ticket_updates EXCEPT ![req[p].id] =
                      Append(@, [user_id |-> req[p].user, update_type |-> "note",
                                 old_value |-> NULL, new_value |-> NULL,
                                 notes |-> req[p].notes])]]_vars

\* a note was added to a ticket whose status had been changed before
C25_Witness ==
    \E p \in Procs :
        /\ pc[p] = "done" /\ req[p].op = "note" /\ res[p].code = 200
        /\ req[p].id \in DOMAIN tickets
        /\ tickets[req[p].id].status = "In Progress"
        /\ Len(ticket_updates[req[p].id]) = 3
        /\ ticket_updates[req[p].id][2].update_type = "status_change"
        /\ ticket_updates[req[p].id][3].update_type = "note"
        /\ ticket_updates[req[p].id][3].user_id = req[p].user

\* C26: in every quiescent state (no change-status request in flight) the
\* stored status of each ticket is the new_value of the status_change row
\* appended last to its history, also after two change-status requests on the
\* ticket interleaved their UPDATE and INSERT statements.
C26_QuiescentStatusIsLastRow ==
    (\A q \in Procs : pc[q] \notin {"s_update", "s_insert"})
    => \A t \in DOMAIN tickets :
          LET sc == StatusChanges(t)
          IN  sc # <<>> /\ sc[Len(sc)].new_value = tickets[t].status

\* C27: the status_change rows of a ticket form a chain: the first has
\* old_value null and new_value Pending, and the old_value of each later row
\* is the new_value of the status_change row appended just before it, under
\* any interleaving of change-status requests.
C27_StatusChain ==
    \A t \in DOMAIN tickets :
        LET sc == StatusChanges(t)
        IN  sc # <<>>
            => /\ sc[1].old_value = NULL /\ sc[1].new_value = "Pending"
               /\ \A i \in 2..Len(sc) : sc[i].old_value = sc[i - 1].new_value

\* C28: every connection acquired by create-ticket is released exactly once
\* on every path (commit, a failing statement, a failing commit, a failing
\* rollback): the connections checked out of the pool are exactly those of
\* the creations in flight, so failed creations never use up the pool.
C28_ConnectionsAccounted ==
    checkedOut = Cardinality({q \in Procs : pc[q] \in CreatePcs})

\* C29: ticket visibility is the same on the read and write paths for every
\* role (user, it, admin): a by-id request (view, history, add-note, delete)
\* finds a ticket exactly when the caller's list-tickets without filters
\* selects that ticket.
C29_VisibilityConsistent ==
    [][\A p \in Procs :
          LET r == req'[p]
          IN  (/\ Started(p) /\ r.op \in ByIdOps
               /\ ~r.selectFails /\ (r.op = "note" => r.notes # "")
               /\ r.id \in DOMAIN tickets)
              => (~(pc'[p] = "done" /\ res'[p] = [code |-> 404, message |-> "Ticket not found"])
                    <=> ListWhere(r.id, r.user, users[r.user].role, NoQuery))]_vars

\* C30: starting with at least one admin account, after any sequence or
\* interleaving of delete-user requests issued by admins, each passing the
\* self-deletion check, at least one admin account exists.
C30_AdminRemains == \E x \in DOMAIN users : users[x].role = "admin"

====
